---- MODULE Spec2Model ----
(***************************************************************************)
(* ViGEmBus, sys/Queue.cpp: the FDO's I/O queue callbacks.                 *)
(*                                                                         *)
(* Bus_EvtIoDeviceControl decodes an I/O control code, validates the       *)
(* request's buffers, resolves the emulation target (PDO) by type and      *)
(* serial and invokes the target or bus operation; Bus_EvtIoDefault        *)
(* rejects everything else.  The queue dispatches in parallel, so a        *)
(* handler that found a PDO can be overtaken by other requests before it   *)
(* invokes the PDO: the handler's position is part of the state.           *)
(*                                                                         *)
(* The bus operations (Bus_PlugInDevice, Bus_UnPlugDevice), the child      *)
(* list lookup (GetPdoByTypeAndSerial) and the PDO's operations            *)
(* (SubmitReport, EnqueueNotification, GetUserIndex) live in other files   *)
(* of the driver; they are modelled from the design document.              *)
(***************************************************************************)
EXTENDS Integers, Sequences, FiniteSets, TLC

\* ------------------------------------------------------------------ bounds

\* Serial numbers a client may name: 0..MaxSerial (0 is the reserved one).
MaxSerial == 1
\* WDFREQUEST handles followed from the PDO lookup to their completion.
MaxRequests == 2

\* --------------------------------------------------------------- constants

\* The protocol version the driver is compiled with (ViGEm/Common.h).
VIGEM_COMMON_VERSION == 1

\* A notification queue that holds every request it is given.
ParkingSlotsUnbounded == MaxRequests

\* Requests one PDO's notification queue holds at a time.
ParkingSlots == 1

IoControlCodes ==
    { "IOCTL_VIGEM_CHECK_VERSION", "IOCTL_VIGEM_PLUGIN_TARGET",
      "IOCTL_VIGEM_UNPLUG_TARGET", "IOCTL_XUSB_SUBMIT_REPORT",
      "IOCTL_XUSB_REQUEST_NOTIFICATION", "IOCTL_DS4_SUBMIT_REPORT",
      "IOCTL_DS4_REQUEST_NOTIFICATION", "IOCTL_XUSB_GET_USER_INDEX",
      "IOCTL_UNKNOWN" }

TargetTypes == { "Xbox360Wired", "DualShock4Wired" }

SubmitCodes == { "IOCTL_XUSB_SUBMIT_REPORT", "IOCTL_DS4_SUBMIT_REPORT" }
NotifyCodes == { "IOCTL_XUSB_REQUEST_NOTIFICATION", "IOCTL_DS4_REQUEST_NOTIFICATION" }
TargetCodes == SubmitCodes \cup NotifyCodes \cup { "IOCTL_XUSB_GET_USER_INDEX" }
BusCodes    == { "IOCTL_VIGEM_PLUGIN_TARGET", "IOCTL_VIGEM_UNPLUG_TARGET" }
\* The operations that write to the output buffer.
OutputCodes == NotifyCodes \cup { "IOCTL_XUSB_GET_USER_INDEX" }

\* sizeof of the structure an I/O control code carries.
sizeof(code) ==
    CASE code = "IOCTL_VIGEM_CHECK_VERSION"       -> 8
      [] code = "IOCTL_VIGEM_PLUGIN_TARGET"       -> 16
      [] code = "IOCTL_VIGEM_UNPLUG_TARGET"       -> 8
      [] code = "IOCTL_XUSB_SUBMIT_REPORT"        -> 20
      [] code = "IOCTL_XUSB_REQUEST_NOTIFICATION" -> 12
      [] code = "IOCTL_DS4_SUBMIT_REPORT"         -> 18
      [] code = "IOCTL_DS4_REQUEST_NOTIFICATION"  -> 14
      [] code = "IOCTL_XUSB_GET_USER_INDEX"       -> 12
      [] OTHER                                    -> 4

\* Every case copied from the XUSB one, the type left as it was.
ExpectedTypeXusbOnly(code) == "Xbox360Wired"

\* The target type an operation resolves its serial against.
ExpectedType(code) ==
    IF code \in { "IOCTL_DS4_SUBMIT_REPORT", "IOCTL_DS4_REQUEST_NOTIFICATION" }
    THEN "DualShock4Wired"
    ELSE "Xbox360Wired"

\* The PDO method an operation invokes.
TargetOp(code) ==
    CASE code \in SubmitCodes -> "SubmitReport"
      [] code \in NotifyCodes -> "EnqueueNotification"
      [] code = "IOCTL_XUSB_GET_USER_INDEX" -> "GetUserIndex"
      [] OTHER -> "none"

NT_SUCCESS(status) == status \in { "STATUS_SUCCESS", "STATUS_PENDING" }

\* ------------------------------------------------------------------ inputs

Serials   == 0 .. MaxSerial
ReqIds    == 1 .. MaxRequests
\* One child-list slot per (type, serial) a client can name.
PdoIds    == 1 .. (2 * MaxSerial)
\* The report payload is opaque to the queue.
Reports   == { "report" }
Versions  == { VIGEM_COMMON_VERSION - 1, VIGEM_COMMON_VERSION, VIGEM_COMMON_VERSION + 1 }

\* What the transport delivers with one device-control request: the code, the
\* two buffer lengths and the fields of the structure in the input buffer.
\* Fields an operation's structure does not have are left at their zero.
Shapes(code) ==
    CASE code = "IOCTL_VIGEM_CHECK_VERSION" ->
           [ code : {code},
             InputBufferLength : { 0, sizeof(code) - 1, sizeof(code), sizeof(code) + 1 },
             OutputBufferLength : {0},
             Size : { sizeof(code), sizeof(code) + 1 },
             SerialNo : {0}, Type : {"Xbox360Wired"},
             Version : Versions, Report : {"none"} ]
      [] code \in BusCodes ->
           [ code : {code},
             InputBufferLength : { sizeof(code) },
             OutputBufferLength : {0},
             Size : { sizeof(code) },
             SerialNo : Serials, Type : TargetTypes,
             Version : {0}, Report : {"none"} ]
      [] code \in SubmitCodes ->
           [ code : {code},
             InputBufferLength : { 0, sizeof(code) - 1, sizeof(code), sizeof(code) + 1 },
             OutputBufferLength : {0},
             Size : { sizeof(code), sizeof(code) + 1 },
             SerialNo : Serials, Type : {ExpectedType(code)},
             Version : {0}, Report : Reports ]
      [] code \in OutputCodes ->
           [ code : {code},
             InputBufferLength : { 0, sizeof(code) - 1, sizeof(code), sizeof(code) + 1 },
             OutputBufferLength : { sizeof(code) - 1, sizeof(code) },
             Size : { sizeof(code), sizeof(code) + 1 },
             SerialNo : Serials, Type : {ExpectedType(code)},
             Version : {0}, Report : {"none"} ]
      [] OTHER ->
           [ code : {code},
             InputBufferLength : {0}, OutputBufferLength : {0},
             Size : {0}, SerialNo : {0}, Type : {"Xbox360Wired"},
             Version : {0}, Report : {"none"} ]

NoRequest ==
    [ code |-> "none", InputBufferLength |-> 0, OutputBufferLength |-> 0,
      Size |-> 0, SerialNo |-> 0, Type |-> "Xbox360Wired", Version |-> 0,
      Report |-> "none" ]

\* ------------------------------------------------------------------- state

VARIABLES
    pdos,        \* the child list: PdoIds -> a live PDO, or NoPdo
    handlers,    \* ReqIds -> a Bus_EvtIoDeviceControl between lookup and PDO call
    completions, \* ReqIds -> the completions of that request, in order
    orphans,     \* requests queued on a PDO that was already destroyed
    last         \* the request whose handler returned last, and its outcome

vars == << pdos, handlers, completions, orphans, last >>

NoPdo == [ live |-> FALSE, Type |-> "Xbox360Wired", SerialNo |-> 0,
           parked |-> {}, dataReady |-> FALSE, report |-> "none" ]

NoHandler == [ pc |-> "idle", rq |-> NoRequest, pdo |-> 0, pdoGone |-> FALSE,
               length |-> 0 ]

NoOutcome ==
    [ handler |-> "none", rq |-> NoRequest,
      status |-> "none", length |-> 0,
      retrieved |-> FALSE,   \* WdfRequestRetrieveInputBuffer succeeded
      lookups |-> 0,         \* calls of GetPdoByTypeAndSerial
      op |-> "none",         \* the bus or PDO operation invoked
      opStatus |-> "none",   \* the status it returned
      stale |-> FALSE,       \* it was invoked on a PDO that was gone
      completed |-> 0 ]      \* completions by the handler itself


Init ==
    /\ pdos = [ i \in PdoIds |-> NoPdo ]
    /\ handlers = [ r \in ReqIds |-> NoHandler ]
    /\ completions = [ r \in ReqIds |-> << >> ]
    /\ orphans = {}
    /\ last = NoOutcome

\* --------------------------------------------------- the framework (WDF)

\* A retrieval that reports the size it was asked for, not the buffer's.
WdfRequestRetrieveInputBufferMinimum(rq, MinimumRequiredSize) ==
    IF rq.InputBufferLength = 0 \/ rq.InputBufferLength < MinimumRequiredSize
    THEN [ status |-> "STATUS_BUFFER_TOO_SMALL", length |-> 0 ]
    ELSE [ status |-> "STATUS_SUCCESS", length |-> MinimumRequiredSize ]

\* WdfRequestRetrieveInputBuffer(Request, MinimumRequiredSize, &Buffer, &Length):
\* fails with STATUS_BUFFER_TOO_SMALL, leaving Length alone, when the request
\* has no input buffer or one shorter than MinimumRequiredSize; otherwise it
\* succeeds and Length receives the length of the request's input buffer.
WdfRequestRetrieveInputBuffer(rq, MinimumRequiredSize) ==
    IF rq.InputBufferLength = 0 \/ rq.InputBufferLength < MinimumRequiredSize
    THEN [ status |-> "STATUS_BUFFER_TOO_SMALL", length |-> 0 ]
    ELSE [ status |-> "STATUS_SUCCESS", length |-> rq.InputBufferLength ]

\* ------------------------------------------- Bus_EvtIoDeviceControl, pure

\* What a case of the switch has decided when it leaves the validation:
\* lookup says that it goes on to GetPdoByTypeAndSerial.
Decided(status, length, retrieved, lookup) ==
    [ status |-> status, length |-> length, retrieved |-> retrieved,
      lookup |-> lookup ]

\* A driver that accepts every client at least as new as itself.
VersionStatusAtLeast(Version) ==
    IF Version >= VIGEM_COMMON_VERSION THEN "STATUS_SUCCESS" ELSE "STATUS_NOT_SUPPORTED"

\* The comparison of line 95.
VersionStatus(Version) ==
    IF Version = VIGEM_COMMON_VERSION THEN "STATUS_SUCCESS" ELSE "STATUS_NOT_SUPPORTED"

\* case IOCTL_VIGEM_CHECK_VERSION
CheckVersion(rq) ==
    LET r == WdfRequestRetrieveInputBuffer(rq, sizeof(rq.code)) IN
    IF ~NT_SUCCESS(r.status) \/ r.length # sizeof(rq.code)
    THEN Decided("STATUS_INVALID_PARAMETER", r.length, NT_SUCCESS(r.status), FALSE)
    ELSE Decided(VersionStatus(rq.Version), r.length, TRUE, FALSE)

\* The output test off by one: a buffer one byte short passes.
OutputTooSmallOffByOne(rq) ==
    rq.code \in OutputCodes /\ rq.OutputBufferLength < sizeof(rq.code) - 1

\* The test every output-producing case starts with.
OutputTooSmall(rq) ==
    rq.code \in OutputCodes /\ rq.OutputBufferLength < sizeof(rq.code)

\* The cases IOCTL_XUSB_SUBMIT_REPORT, IOCTL_XUSB_REQUEST_NOTIFICATION,
\* IOCTL_DS4_SUBMIT_REPORT, IOCTL_DS4_REQUEST_NOTIFICATION and
\* IOCTL_XUSB_GET_USER_INDEX up to the lookup of the PDO.  status starts as
\* STATUS_INVALID_PARAMETER and length as 0 (lines 59 and 61); the buffer
\* retrieval overwrites both, and a request whose Size or length does not
\* match skips the if-block with the status the retrieval left.
ValidateTargetRequest(rq) ==
    IF OutputTooSmall(rq)
    THEN Decided("STATUS_INVALID_PARAMETER", 0, FALSE, FALSE)
    ELSE
    LET r == WdfRequestRetrieveInputBuffer(rq, sizeof(rq.code)) IN
    IF ~NT_SUCCESS(r.status)
    THEN Decided(r.status, r.length, FALSE, FALSE)
    ELSE IF ~(sizeof(rq.code) = rq.Size /\ r.length = rq.InputBufferLength)
    THEN Decided(r.status, r.length, TRUE, FALSE)
    ELSE IF rq.SerialNo = 0
    THEN Decided("STATUS_INVALID_PARAMETER", r.length, TRUE, FALSE)
    ELSE Decided(r.status, r.length, TRUE, TRUE)

\* A miss that leaves the status the buffer retrieval set.
MissStatusLeft == "STATUS_SUCCESS"

\* The status of a lookup that found no PDO.
MissStatus == "STATUS_DEVICE_DOES_NOT_EXIST"

\* Every case ended as the notification cases end: a success is pending.
AfterTargetOpAllPending(code, opStatus) ==
    IF NT_SUCCESS(opStatus) THEN "STATUS_PENDING" ELSE opStatus

\* The status the handler ends with after the PDO's operation returned.
AfterTargetOp(code, opStatus) ==
    IF code \in NotifyCodes
    THEN (IF NT_SUCCESS(opStatus) THEN "STATUS_PENDING" ELSE opStatus)
    ELSE opStatus

\* A handler that completes whatever it ends with.
CompletesRequestAlways(status) == TRUE

\* Lines 394-397: the handler completes the request unless it is pending.
CompletesRequest(status) == status # "STATUS_PENDING"

\* --------------------------------------------------------- the child list

Live == { i \in PdoIds : pdos[i].live }

Matching(Type, SerialNo) ==
    { i \in Live : pdos[i].Type = Type /\ pdos[i].SerialNo = SerialNo }

\* EmulationTargetPDO::GetPdoByTypeAndSerial(Device, Type, SerialNo, &pdo):
\* the live PDO of that type and serial, or 0 for FALSE.
GetPdoByTypeAndSerial(Type, SerialNo) ==
    IF Matching(Type, SerialNo) = {}
    THEN 0
    ELSE CHOOSE i \in Matching(Type, SerialNo) :
             \A j \in Matching(Type, SerialNo) : i <= j

\* A plug-in that does not look for the (type, serial) first.
AlreadyPluggedUnchecked(Type, SerialNo) == FALSE

\* The plug-in's check that the (type, serial) is taken.
AlreadyPlugged(Type, SerialNo) == Matching(Type, SerialNo) # {}

FreePdoIds == PdoIds \ Live

\* Bus_PlugInDevice: the status of a plug-in request.
PlugInStatus(rq) ==
    IF rq.SerialNo = 0 THEN "STATUS_INVALID_PARAMETER"
    ELSE IF AlreadyPlugged(rq.Type, rq.SerialNo) THEN "AlreadyExists"
    ELSE "STATUS_SUCCESS"

\* Bus_PlugInDevice: the child list after a plug-in request.
PlugInPdos(rq) ==
    IF PlugInStatus(rq) = "STATUS_SUCCESS"
    THEN LET i == CHOOSE f \in FreePdoIds : \A g \in FreePdoIds : f <= g IN
         [ pdos EXCEPT ![i] = [ NoPdo EXCEPT !.live = TRUE, !.Type = rq.Type,
                                             !.SerialNo = rq.SerialNo ] ]
    ELSE pdos

\* Bus_UnPlugDevice: the status of an unplug request.
UnPlugStatus(rq) ==
    IF GetPdoByTypeAndSerial(rq.Type, rq.SerialNo) = 0
    THEN "STATUS_DEVICE_DOES_NOT_EXIST"
    ELSE "STATUS_SUCCESS"

\* The requests an unplug of PDO i completes as the target goes.
Drained(i) == pdos[i].parked

\* ---------------------------------------------------------------- the PDO

\* EmulationTargetPDO::SubmitReport on a live PDO.
SubmitReport(i, rq) ==
    [ status |-> "STATUS_SUCCESS",
      pdos |-> [ pdos EXCEPT ![i].report = rq.Report ],
      completes |-> FALSE ]

\* EmulationTargetXUSB::GetUserIndex on a live PDO.
GetUserIndex(i, rq) ==
    [ status |-> "STATUS_SUCCESS", pdos |-> pdos, completes |-> FALSE ]

\* EmulationTargetPDO::EnqueueNotification on a live PDO: output that is
\* ready completes the request at once, a taken slot turns it away, and
\* otherwise the request is parked.
EnqueueNotification(i, r) ==
    IF pdos[i].dataReady
    THEN [ status |-> "STATUS_SUCCESS",
           pdos |-> [ pdos EXCEPT ![i].dataReady = FALSE ],
           completes |-> TRUE ]
    ELSE IF Cardinality(pdos[i].parked) >= ParkingSlots
    THEN [ status |-> "Busy", pdos |-> pdos, completes |-> FALSE ]
    ELSE [ status |-> "STATUS_PENDING",
           pdos |-> [ pdos EXCEPT ![i].parked = @ \cup {r} ],
           completes |-> FALSE ]

\* The PDO's operation a handler invokes, on a live PDO.
InvokeOn(i, r, rq) ==
    CASE TargetOp(rq.code) = "SubmitReport" -> SubmitReport(i, rq)
      [] TargetOp(rq.code) = "GetUserIndex" -> GetUserIndex(i, rq)
      [] OTHER -> EnqueueNotification(i, r)

\* What a call through a pointer to a destroyed PDO can return: the object's
\* memory may still read as a PDO (the operation goes through on the dead
\* object) or as one that is gone.
StaleStatuses(op) ==
    IF op = "EnqueueNotification"
    THEN { "STATUS_PENDING", "STATUS_DEVICE_DOES_NOT_EXIST" }
    ELSE { "STATUS_SUCCESS", "STATUS_DEVICE_DOES_NOT_EXIST" }


\* ----------------------------------------------------------------- actions

\* Every request the transport can deliver.
AllRequests == UNION { Shapes(code) : code \in IoControlCodes }

\* The requests of a client that fills in the structures as the protocol
\* header says and names a serial.
PlainRequests ==
    { rq \in AllRequests :
        /\ rq.InputBufferLength = sizeof(rq.code) \/ rq.code = "IOCTL_UNKNOWN"
        /\ rq.Size = sizeof(rq.code) \/ rq.code = "IOCTL_UNKNOWN"
        /\ rq.code \in OutputCodes => rq.OutputBufferLength = sizeof(rq.code)
        /\ rq.code = "IOCTL_VIGEM_CHECK_VERSION" => rq.Version = VIGEM_COMMON_VERSION
        /\ rq.code \in TargetCodes => rq.SerialNo # 0 }

Parked == UNION { pdos[i].parked : i \in PdoIds }

\* A request whose handler has returned and that no queue holds any more:
\* the framework deletes the request object and its handle is free again.
Retired(r) ==
    /\ handlers[r].pc = "returned"
    /\ r \notin Parked
    /\ r \notin orphans

\* handlers and completions without the retired requests.
LiveHandlers == [ r \in ReqIds |-> IF Retired(r) THEN NoHandler ELSE handlers[r] ]
LiveCompletions == [ r \in ReqIds |-> IF Retired(r) THEN << >> ELSE completions[r] ]

IdleIds == { r \in ReqIds : LiveHandlers[r].pc = "idle" }

\* The completions after the requests in `reqs` were each completed once more.
CompleteAll(reqs, source, status) ==
    [ r \in ReqIds |->
        IF r \in reqs THEN Append(LiveCompletions[r], << source, status >>)
        ELSE LiveCompletions[r] ]

\* The record of a Bus_EvtIoDeviceControl that returns with `status`.
Returned(rq, status, length, retrieved, lookups, op, opStatus, stale) ==
    [ handler |-> "Bus_EvtIoDeviceControl", rq |-> rq,
      status |-> status, length |-> length, retrieved |-> retrieved,
      lookups |-> lookups, op |-> op, opStatus |-> opStatus,
      stale |-> stale,
      completed |-> IF CompletesRequest(status) THEN 1 ELSE 0 ]

\* case IOCTL_VIGEM_CHECK_VERSION, through to the return.
DeviceControlCheckVersion(rq) ==
    /\ rq.code = "IOCTL_VIGEM_CHECK_VERSION"
    /\ LET d == CheckVersion(rq) IN
       last' = Returned(rq, d.status, d.length, d.retrieved, 0,
                        "none", "none", FALSE)
    /\ handlers' = LiveHandlers
    /\ completions' = LiveCompletions
    /\ UNCHANGED << pdos, orphans >>

\* case IOCTL_VIGEM_PLUGIN_TARGET, through to the return.
DeviceControlPlugIn(rq) ==
    /\ rq.code = "IOCTL_VIGEM_PLUGIN_TARGET"
    /\ PlugInStatus(rq) = "STATUS_SUCCESS" => FreePdoIds # {}
    /\ pdos' = PlugInPdos(rq)
    /\ last' = Returned(rq, PlugInStatus(rq), 0, FALSE, 0,
                        "Bus_PlugInDevice", PlugInStatus(rq), FALSE)
    /\ handlers' = LiveHandlers
    /\ completions' = LiveCompletions
    /\ UNCHANGED orphans

\* case IOCTL_VIGEM_UNPLUG_TARGET, through to the return.  The PDO leaves the
\* child list, its parked requests are completed, and every handler that
\* still holds a pointer to it holds a dangling one.
DeviceControlUnPlug(rq) ==
    /\ rq.code = "IOCTL_VIGEM_UNPLUG_TARGET"
    /\ LET i == GetPdoByTypeAndSerial(rq.Type, rq.SerialNo) IN
       /\ IF UnPlugStatus(rq) = "STATUS_SUCCESS"
          THEN /\ pdos' = [ pdos EXCEPT ![i] = NoPdo ]
               /\ completions' = CompleteAll(Drained(i), "unplug", "TargetGone")
               /\ handlers' = [ r \in ReqIds |->
                      IF LiveHandlers[r].pc = "lookedup" /\ LiveHandlers[r].pdo = i
                      THEN [ LiveHandlers[r] EXCEPT !.pdoGone = TRUE ]
                      ELSE LiveHandlers[r] ]
          ELSE /\ pdos' = pdos
               /\ completions' = LiveCompletions
               /\ handlers' = LiveHandlers
       /\ last' = Returned(rq, UnPlugStatus(rq), 0, FALSE, 0,
                           "Bus_UnPlugDevice", UnPlugStatus(rq), FALSE)
    /\ UNCHANGED orphans

\* The PDO a target-scoped request resolves to, or 0.
Resolve(rq) == GetPdoByTypeAndSerial(ExpectedType(rq.code), rq.SerialNo)

\* A target-scoped case that ends before any PDO is called: the request fails
\* the validation, or names no live PDO, and is completed.
DeviceControlTarget(rq) ==
    /\ rq.code \in TargetCodes
    /\ LET d == ValidateTargetRequest(rq) IN
       /\ d.lookup => Resolve(rq) = 0
       /\ last' = IF d.lookup
                  THEN Returned(rq, MissStatus, d.length, d.retrieved, 1,
                                "none", "none", FALSE)
                  ELSE Returned(rq, d.status, d.length, d.retrieved, 0,
                                "none", "none", FALSE)
    /\ handlers' = LiveHandlers
    /\ completions' = LiveCompletions
    /\ UNCHANGED << pdos, orphans >>

\* A target-scoped case up to the lookup that finds the PDO: the handler
\* holds the pointer and has not called the PDO yet.
DeviceControlTargetFound(rq) ==
    /\ rq.code \in TargetCodes
    /\ LET d == ValidateTargetRequest(rq) IN
       /\ d.lookup
       /\ Resolve(rq) # 0
       /\ IdleIds # {}
       /\ LET r == CHOOSE f \in IdleIds : \A g \in IdleIds : f <= g IN
          handlers' = [ LiveHandlers EXCEPT ![r] =
              [ pc |-> "lookedup", rq |-> rq, pdo |-> Resolve(rq),
                pdoGone |-> FALSE, length |-> d.length ] ]
    /\ completions' = LiveCompletions
    /\ UNCHANGED << pdos, orphans, last >>

\* The rest of a target-scoped case: the call of the PDO's operation through
\* the pointer the lookup gave, and lines 394-397.
TargetInvoke(r) ==
    /\ handlers[r].pc = "lookedup"
    /\ LET h  == handlers[r]
           op == TargetOp(h.rq.code)
       IN
       \E res \in IF h.pdoGone
                  THEN { [ status |-> st, pdos |-> pdos, completes |-> FALSE ] :
                         st \in StaleStatuses(op) }
                  ELSE { InvokeOn(h.pdo, r, h.rq) } :
           LET status == AfterTargetOp(h.rq.code, res.status)
               byPdo  == IF res.completes
                         THEN << << "data", "STATUS_SUCCESS" >> >> ELSE << >>
               byHandler == IF CompletesRequest(status)
                            THEN << << "handler", status >> >> ELSE << >>
           IN
           /\ pdos' = res.pdos
           /\ orphans' = IF h.pdoGone /\ res.status = "STATUS_PENDING"
                         THEN orphans \cup {r} ELSE orphans
           /\ completions' = [ LiveCompletions EXCEPT ![r] = @ \o byPdo \o byHandler ]
           /\ handlers' = [ LiveHandlers EXCEPT ![r] = [ NoHandler EXCEPT !.pc = "returned" ] ]
           /\ last' = Returned(h.rq, status, h.length, TRUE, 1, op,
                               res.status, h.pdoGone)

\* A default case under a status that starts as STATUS_SUCCESS.
DeviceControlUnknownSucceeds(rq) ==
    /\ rq.code = "IOCTL_UNKNOWN"
    /\ last' = Returned(rq, "STATUS_SUCCESS", 0, FALSE, 0,
                        "none", "none", FALSE)
    /\ handlers' = LiveHandlers
    /\ completions' = LiveCompletions
    /\ UNCHANGED << pdos, orphans >>

\* default: an unknown I/O control code.
DeviceControlUnknown(rq) ==
    /\ rq.code = "IOCTL_UNKNOWN"
    /\ last' = Returned(rq, "STATUS_INVALID_PARAMETER", 0, FALSE, 0,
                        "none", "none", FALSE)
    /\ handlers' = LiveHandlers
    /\ completions' = LiveCompletions
    /\ UNCHANGED << pdos, orphans >>

\* A Bus_EvtIoDefault that ends as the default case of the switch does.
EvtIoDefaultInvalidParameter ==
    /\ last' = [ NoOutcome EXCEPT !.handler = "Bus_EvtIoDefault",
                                  !.status = "STATUS_INVALID_PARAMETER",
                                  !.completed = 1 ]
    /\ handlers' = LiveHandlers
    /\ completions' = LiveCompletions
    /\ UNCHANGED << pdos, orphans >>

\* Bus_EvtIoDefault: any request that is not a device control.
EvtIoDefault ==
    /\ last' = [ NoOutcome EXCEPT !.handler = "Bus_EvtIoDefault",
                                  !.status = "STATUS_INVALID_DEVICE_REQUEST",
                                  !.completed = 1 ]
    /\ handlers' = LiveHandlers
    /\ completions' = LiveCompletions
    /\ UNCHANGED << pdos, orphans >>

\* Output arrives for PDO i: it completes the parked request, or waits for
\* the next one.
PdoDataArrival(i) ==
    /\ pdos[i].live
    /\ IF pdos[i].parked # {}
       THEN \E r \in pdos[i].parked :
                /\ pdos' = [ pdos EXCEPT ![i].parked = @ \ {r} ]
                /\ completions' = CompleteAll({r}, "data", "STATUS_SUCCESS")
       ELSE /\ ~pdos[i].dataReady
            /\ pdos' = [ pdos EXCEPT ![i].dataReady = TRUE ]
            /\ completions' = LiveCompletions
    /\ handlers' = LiveHandlers
    /\ UNCHANGED << orphans, last >>

\* The caller cancels request r while it is parked.
RequestCancel(r) ==
    \E i \in Live :
        /\ r \in pdos[i].parked
        /\ pdos' = [ pdos EXCEPT ![i].parked = @ \ {r} ]
        /\ completions' = CompleteAll({r}, "cancel", "Cancelled")
        /\ handlers' = LiveHandlers
        /\ UNCHANGED << orphans, last >>

\* ---------------------------------------------------------- specifications

\* The driver under clients that run in parallel.
Next ==
    \/ \E rq \in PlainRequests : DeviceControlPlugIn(rq)
    \/ \E rq \in PlainRequests : DeviceControlUnPlug(rq)
    \/ \E rq \in PlainRequests : DeviceControlTarget(rq)
    \/ \E rq \in PlainRequests : DeviceControlTargetFound(rq)
    \/ \E r \in ReqIds : TargetInvoke(r)
    \/ \E i \in PdoIds : PdoDataArrival(i)
    \/ \E r \in ReqIds : RequestCancel(r)

Spec == Init /\ [][Next]_vars

\* The child lists a sequence of plug-ins leaves.
PluggedIn ==
    { p \in [ PdoIds -> [ live : BOOLEAN, Type : TargetTypes, SerialNo : Serials,
                          parked : {{}}, dataReady : {FALSE}, report : {"none"} ] ] :
        /\ \A i \in PdoIds : ~p[i].live => p[i] = NoPdo
        /\ \A i \in PdoIds : p[i].live => p[i].SerialNo # 0
        /\ \A i, j \in PdoIds :
              p[i].live /\ p[j].live /\ i < j =>
                  \/ p[i].SerialNo < p[j].SerialNo
                  \/ p[i].SerialNo = p[j].SerialNo /\ p[i].Type = "Xbox360Wired"
                                                   /\ p[j].Type = "DualShock4Wired" }

\* The validation of every request the transport can deliver, against every
\* child list: the requests that end before a PDO is called.
InitValidation ==
    /\ pdos \in PluggedIn
    /\ handlers = [ r \in ReqIds |-> NoHandler ]
    /\ completions = [ r \in ReqIds |-> << >> ]
    /\ orphans = {}
    /\ last = NoOutcome

NextValidation ==
    \/ \E rq \in AllRequests : DeviceControlCheckVersion(rq)
    \/ \E rq \in AllRequests : DeviceControlTarget(rq)
    \/ \E rq \in AllRequests : DeviceControlUnknown(rq)
    \/ EvtIoDefault

SpecValidation == InitValidation /\ [][NextValidation]_vars

\* No handler stands between its lookup and its call of the PDO.
NoneLookedUp == \A r \in ReqIds : handlers[r].pc # "lookedup"

\* Every request the transport can deliver, from one client thread: a
\* handler runs from its entry to its return before the next one is entered.
NextDispatch ==
    \/ \E rq \in AllRequests : NoneLookedUp /\ DeviceControlCheckVersion(rq)
    \/ \E rq \in AllRequests : NoneLookedUp /\ DeviceControlPlugIn(rq)
    \/ \E rq \in AllRequests : NoneLookedUp /\ DeviceControlUnPlug(rq)
    \/ \E rq \in AllRequests : NoneLookedUp /\ DeviceControlTarget(rq)
    \/ \E rq \in AllRequests : NoneLookedUp /\ DeviceControlTargetFound(rq)
    \/ \E r \in ReqIds : TargetInvoke(r)
    \/ \E rq \in AllRequests : NoneLookedUp /\ DeviceControlUnknown(rq)
    \/ NoneLookedUp /\ EvtIoDefault

SpecDispatch == Init /\ [][NextDispatch]_vars

\* ------------------------------------------------------------------ claims

DeviceControlReturned == last.handler = "Bus_EvtIoDeviceControl"

\* C1: a target-scoped request whose input buffer was retrieved but whose
\* Size field is not the size of the operation's structure is completed with
\* STATUS_INVALID_PARAMETER, without a lookup and without a call of a PDO.
C1_SizeMismatchIsInvalidParameter ==
    ( /\ DeviceControlReturned
      /\ last.rq.code \in TargetCodes
      /\ last.retrieved
      /\ last.rq.Size # sizeof(last.rq.code) )
    => /\ last.status = "STATUS_INVALID_PARAMETER"
       /\ last.completed = 1
       /\ last.lookups = 0
       /\ last.op = "none"

\* C2: a submit-report, request-notification or get-user-index request with
\* SerialNo 0 is completed with STATUS_INVALID_PARAMETER and never reaches
\* GetPdoByTypeAndSerial, whatever its other fields and buffer lengths are.
C2_SerialZeroIsInvalidParameter ==
    ( /\ DeviceControlReturned
      /\ last.rq.code \in TargetCodes
      /\ last.rq.SerialNo = 0 )
    => /\ last.status = "STATUS_INVALID_PARAMETER"
       /\ last.lookups = 0

\* C6: a request-notification or get-user-index request whose output buffer
\* is smaller than the operation's structure is completed by the handler with
\* STATUS_INVALID_PARAMETER before the input buffer is retrieved and before
\* any lookup, whatever the child list holds.
C6_SmallOutputRejectedFirst ==
    ( /\ DeviceControlReturned
      /\ last.rq.code \in OutputCodes
      /\ last.rq.OutputBufferLength < sizeof(last.rq.code) )
    => /\ last.status = "STATUS_INVALID_PARAMETER"
       /\ last.length = 0
       /\ ~last.retrieved
       /\ last.lookups = 0
       /\ last.op = "none"
       /\ last.completed = 1

\* C6's case: a well-formed DS4 request-notification, but for the output
\* buffer, naming the serial of a live DualShock4Wired target.
C6_Witness ==
    /\ DeviceControlReturned
    /\ last.rq.code = "IOCTL_DS4_REQUEST_NOTIFICATION"
    /\ last.rq.OutputBufferLength < sizeof(last.rq.code)
    /\ last.rq.InputBufferLength = sizeof(last.rq.code)
    /\ last.rq.Size = sizeof(last.rq.code)
    /\ last.rq.SerialNo # 0
    /\ Matching("DualShock4Wired", last.rq.SerialNo) # {}
    /\ last.status = "STATUS_INVALID_PARAMETER"

\* C7: a version check whose input length is the size of the structure ends
\* with STATUS_SUCCESS if the caller's Version is the compiled one and with
\* STATUS_NOT_SUPPORTED for every other Version; it is completed by the
\* handler and never looks at the child list.
C7_VersionCheck ==
    ( /\ DeviceControlReturned
      /\ last.rq.code = "IOCTL_VIGEM_CHECK_VERSION"
      /\ last.rq.InputBufferLength = sizeof("IOCTL_VIGEM_CHECK_VERSION") )
    => /\ last.rq.Version = VIGEM_COMMON_VERSION => last.status = "STATUS_SUCCESS"
       /\ last.rq.Version # VIGEM_COMMON_VERSION => last.status = "STATUS_NOT_SUPPORTED"
       /\ last.completed = 1
       /\ last.lookups = 0
       /\ last.op = "none"

\* C7's case: a newer client is turned away while targets are plugged in.
C7_Witness ==
    /\ DeviceControlReturned
    /\ last.rq.code = "IOCTL_VIGEM_CHECK_VERSION"
    /\ last.rq.InputBufferLength = sizeof("IOCTL_VIGEM_CHECK_VERSION")
    /\ last.rq.Version > VIGEM_COMMON_VERSION
    /\ last.status = "STATUS_NOT_SUPPORTED"
    /\ Live # {}

\* The live PDOs of (Type, SerialNo), read off the child list itself.
LivePdos(Type, SerialNo) ==
    { i \in PdoIds : pdos[i].live /\ pdos[i].Type = Type /\ pdos[i].SerialNo = SerialNo }

\* The target type the protocol gives each operation.
OwnType(code) ==
    CASE code \in { "IOCTL_XUSB_SUBMIT_REPORT", "IOCTL_XUSB_REQUEST_NOTIFICATION",
                    "IOCTL_XUSB_GET_USER_INDEX" } -> "Xbox360Wired"
      [] code \in { "IOCTL_DS4_SUBMIT_REPORT", "IOCTL_DS4_REQUEST_NOTIFICATION" }
           -> "DualShock4Wired"

\* The completions of request r by the handler itself.
ByHandler(r) ==
    { k \in 1 .. Len(completions[r]) : completions[r][k][1] = "handler" }

C3_AtMostOneCompletion ==
    \A r \in ReqIds :
        /\ Len(completions[r]) <= 1
        /\ r \in Parked => completions[r] = << >>
        /\ r \in Parked \cup orphans => ByHandler(r) = {}

\* No two live PDOs have the same type and serial.
UniqueTypeAndSerial ==
    \A i, j \in Live :
        pdos[i].Type = pdos[j].Type /\ pdos[i].SerialNo = pdos[j].SerialNo => i = j

\* C4: no two live targets share a (type, serial), and a plug-in that names
\* the (type, serial) of a live target ends with AlreadyExists and leaves the
\* child list, every target's state and every parked request as they were.
C4_UniqueTypeAndSerial ==
    [][ /\ UniqueTypeAndSerial'
        /\ ( /\ last'.op = "Bus_PlugInDevice"
             /\ DeviceControlPlugIn(last'.rq)
             /\ LivePdos(last'.rq.Type, last'.rq.SerialNo) # {} )
           => /\ last'.status = "AlreadyExists"
              /\ last'.completed = 1
              /\ pdos' = pdos
              /\ orphans' = orphans
              /\ \A r \in Parked : completions'[r] = completions[r]
      ]_vars

\* C4's case: a second plug-in of a live target that holds a parked request.
C4_Witness ==
    /\ DeviceControlReturned
    /\ last.op = "Bus_PlugInDevice"
    /\ last.status = "AlreadyExists"
    /\ \E i \in LivePdos(last.rq.Type, last.rq.SerialNo) : pdos[i].parked # {}

\* C5: an unplug of a live target completes each of its parked requests with
\* TargetGone, once, leaves none of them parked, and removes the target; and
\* a submit-report, request-notification or get-user-index that names a
\* (type, serial) with no live target ends with STATUS_DEVICE_DOES_NOT_EXIST
\* and calls no PDO.
C5_UnplugDrainsAndRemoves ==
    [][ /\ ( /\ last'.op = "Bus_UnPlugDevice"
             /\ DeviceControlUnPlug(last'.rq)
             /\ LivePdos(last'.rq.Type, last'.rq.SerialNo) # {} )
           => /\ last'.status = "STATUS_SUCCESS"
              /\ last'.completed = 1
              /\ \A i \in LivePdos(last'.rq.Type, last'.rq.SerialNo) :
                    \A r \in pdos[i].parked :
                        /\ completions'[r] = << << "unplug", "TargetGone" >> >>
                        /\ \A j \in PdoIds : r \notin pdos'[j].parked
                        /\ r \notin orphans'
              /\ \A i \in PdoIds :
                    ~( pdos'[i].live /\ pdos'[i].Type = last'.rq.Type
                                     /\ pdos'[i].SerialNo = last'.rq.SerialNo )
        /\ ( /\ last'.rq.code \in TargetCodes
             /\ DeviceControlTarget(last'.rq)
             /\ LivePdos(OwnType(last'.rq.code), last'.rq.SerialNo) = {} )
           => /\ last'.status = "STATUS_DEVICE_DOES_NOT_EXIST"
              /\ last'.op = "none"
              /\ last'.completed = 1
        /\ \A r \in ReqIds :
              ( /\ handlers'[r].pc = "lookedup"
                /\ handlers[r].pc # "lookedup" )
              => LivePdos(OwnType(handlers'[r].rq.code), handlers'[r].rq.SerialNo) # {}
      ]_vars

\* C5's case: the unplug has just completed a parked request with TargetGone.
C5_Witness ==
    /\ DeviceControlReturned
    /\ last.op = "Bus_UnPlugDevice"
    /\ last.status = "STATUS_SUCCESS"
    /\ LivePdos(last.rq.Type, last.rq.SerialNo) = {}
    /\ \E r \in ReqIds : completions[r] = << << "unplug", "TargetGone" >> >>

\* C8: a well-formed submit-report with a non-zero serial ends with
\* STATUS_DEVICE_DOES_NOT_EXIST exactly when no live target of the
\* operation's own type has the serial; otherwise the handler holds that
\* target, never one of the other type, and returns what SubmitReport
\* returned.
C8_SubmitResolvesOwnType ==
    [][ /\ ( /\ last'.rq.code \in SubmitCodes
             /\ DeviceControlTarget(last'.rq) )
           => /\ LivePdos(OwnType(last'.rq.code), last'.rq.SerialNo) = {}
              /\ last'.status = "STATUS_DEVICE_DOES_NOT_EXIST"
              /\ last'.op = "none"
        /\ \A r \in ReqIds :
              ( /\ handlers'[r].pc = "lookedup"
                /\ handlers[r].pc # "lookedup"
                /\ handlers'[r].rq.code \in SubmitCodes )
              => handlers'[r].pdo \in
                     LivePdos(OwnType(handlers'[r].rq.code), handlers'[r].rq.SerialNo)
        /\ \A r \in ReqIds :
              ( /\ handlers[r].pc = "lookedup"
                /\ handlers[r].rq.code \in SubmitCodes
                /\ TargetInvoke(r) )
              => /\ last'.op = "SubmitReport"
                 /\ last'.status = last'.opStatus
                 /\ last'.completed = 1
                 /\ ~handlers[r].pdoGone =>
                       /\ last'.status = "STATUS_SUCCESS"
                       /\ pdos'[handlers[r].pdo].report = handlers[r].rq.Report
                       /\ \A j \in PdoIds \ {handlers[r].pdo} : pdos'[j] = pdos[j]
      ]_vars

\* C8's case: an XUSB submit-report names a serial that is plugged in only as
\* DualShock4Wired.
C8_Witness ==
    /\ DeviceControlReturned
    /\ last.rq.code = "IOCTL_XUSB_SUBMIT_REPORT"
    /\ last.status = "STATUS_DEVICE_DOES_NOT_EXIST"
    /\ LivePdos("DualShock4Wired", last.rq.SerialNo) # {}
    /\ LivePdos("Xbox360Wired", last.rq.SerialNo) = {}

\* C9: the lookup and the call of the PDO are one step with respect to an
\* unplug: no handler holds a PDO that has been removed, no operation is
\* invoked on one, and a request that loses the race ends with
\* STATUS_DEVICE_DOES_NOT_EXIST.
C9_LookupAndCallAtomic ==
    /\ \A r \in ReqIds : handlers[r].pc = "lookedup" => ~handlers[r].pdoGone
    /\ ~last.stale
    /\ orphans = {}

\* C10: a Bus_EvtIoDeviceControl completes its request once if it ends with
\* any status but STATUS_PENDING and not at all if it ends with
\* STATUS_PENDING; a request-notification whose EnqueueNotification succeeded
\* ends pending and is not completed by the handler, and one whose
\* EnqueueNotification failed is completed by the handler with that status.
C10_CompletedUnlessPending ==
    /\ DeviceControlReturned =>
          /\ last.status # "STATUS_PENDING" => last.completed = 1
          /\ last.status = "STATUS_PENDING" => last.completed = 0
          /\ last.op = "EnqueueNotification" =>
                /\ NT_SUCCESS(last.opStatus) => last.status = "STATUS_PENDING"
                /\ ~NT_SUCCESS(last.opStatus) => last.status = last.opStatus
    /\ \A r \in ReqIds :
          /\ Cardinality(ByHandler(r)) <= 1
          /\ r \in Parked \cup orphans => ByHandler(r) = {}
          /\ handlers[r].pc = "returned" /\ ByHandler(r) = {} =>
                \/ r \in Parked \cup orphans
                \/ \E k \in 1 .. Len(completions[r]) :
                      completions[r][k][1] \in { "data", "cancel", "unplug" }

\* C10's case: a second request-notification is turned away with Busy and
\* completed by the handler while the first one stays parked, uncompleted.
C10_Witness ==
    /\ DeviceControlReturned
    /\ last.op = "EnqueueNotification"
    /\ last.opStatus = "Busy"
    /\ last.status = "Busy"
    /\ last.completed = 1
    /\ \E r \in Parked : completions[r] = << >> /\ handlers[r].pc = "returned"
    /\ \E r \in ReqIds : completions[r] = << << "handler", "Busy" >> >>

\* C11: a request with an I/O control code that is none of the eight known
\* ones is completed by the handler with STATUS_INVALID_PARAMETER and length
\* 0, without a retrieval of the input buffer, a lookup or a call of a bus or
\* PDO operation, and is never left pending.
C11_UnknownCodeIsInvalidParameter ==
    ( /\ DeviceControlReturned
      /\ last.rq.code \notin TargetCodes \cup BusCodes \cup { "IOCTL_VIGEM_CHECK_VERSION" } )
    => /\ last.status = "STATUS_INVALID_PARAMETER"
       /\ last.length = 0
       /\ ~last.retrieved
       /\ last.lookups = 0
       /\ last.op = "none"
       /\ last.completed = 1

\* C11's case: an unknown code arrives while targets are plugged in.
C11_Witness ==
    /\ DeviceControlReturned
    /\ last.rq.code = "IOCTL_UNKNOWN"
    /\ last.status = "STATUS_INVALID_PARAMETER"
    /\ last.completed = 1
    /\ Live # {}

\* C12: a version check, submit-report, request-notification or
\* get-user-index whose input buffer is absent or shorter than the
\* operation's structure ends with STATUS_INVALID_PARAMETER, not with the
\* status of WdfRequestRetrieveInputBuffer, and makes no lookup and no call of
\* a PDO.
C12_ShortInputIsInvalidParameter ==
    ( /\ DeviceControlReturned
      /\ last.rq.code \in TargetCodes \cup { "IOCTL_VIGEM_CHECK_VERSION" }
      /\ last.rq.InputBufferLength < sizeof(last.rq.code) )
    => /\ last.status = "STATUS_INVALID_PARAMETER"
       /\ last.lookups = 0
       /\ last.op = "none"

\* C13: a submit-report, request-notification or get-user-index whose input
\* buffer is longer than the operation's structure ends with
\* STATUS_INVALID_PARAMETER and makes no lookup and no call of a PDO, also
\* when its Size field is right and its serial is that of a live target.
C13_LongInputIsInvalidParameter ==
    /\ ( /\ DeviceControlReturned
         /\ last.rq.code \in TargetCodes
         /\ last.rq.InputBufferLength > sizeof(last.rq.code) )
       => /\ last.status = "STATUS_INVALID_PARAMETER"
          /\ last.lookups = 0
          /\ last.op = "none"
    /\ \A r \in ReqIds :
          handlers[r].pc = "lookedup" =>
              handlers[r].rq.InputBufferLength <= sizeof(handlers[r].rq.code)

\* C14: a version check whose Size field is not the size of
\* VIGEM_CHECK_VERSION ends with STATUS_INVALID_PARAMETER, whatever its input
\* length and its Version are.
C14_VersionCheckSizeMismatch ==
    ( /\ DeviceControlReturned
      /\ last.rq.code = "IOCTL_VIGEM_CHECK_VERSION"
      /\ last.rq.Size # sizeof("IOCTL_VIGEM_CHECK_VERSION") )
    => last.status = "STATUS_INVALID_PARAMETER"

\* C15: a request-notification that finds output ready on its live PDO is
\* completed at once, with that output, and its handler ends with
\* STATUS_SUCCESS; the handler ends with STATUS_PENDING only when no output
\* was ready and the request was parked.
C15_ReadyDataIsSuccess ==
    [][ \A r \in ReqIds :
          ( /\ handlers[r].pc = "lookedup"
            /\ handlers[r].rq.code \in NotifyCodes
            /\ ~handlers[r].pdoGone
            /\ TargetInvoke(r) )
          => /\ pdos[handlers[r].pdo].dataReady =>
                   /\ completions'[r] = << << "data", "STATUS_SUCCESS" >> >>
                   /\ r \notin Parked'
                   /\ last'.status = "STATUS_SUCCESS"
             /\ last'.status = "STATUS_PENDING" =>
                   /\ ~pdos[handlers[r].pdo].dataReady
                   /\ r \in pdos'[handlers[r].pdo].parked
      ]_vars

C17_SecondNotificationIsBusy ==
    [][ /\ \A i \in PdoIds : Cardinality(pdos'[i].parked) <= 1
        /\ \A r \in ReqIds :
              ( /\ handlers[r].pc = "lookedup"
                /\ handlers[r].rq.code \in NotifyCodes
                /\ ~handlers[r].pdoGone
                /\ pdos[handlers[r].pdo].parked # {}
                /\ TargetInvoke(r) )
              => /\ last'.opStatus = "Busy"
                 /\ last'.status = "Busy"
                 /\ last'.completed = 1
                 /\ completions'[r] = << << "handler", "Busy" >> >>
                 /\ r \notin Parked'
                 /\ pdos' = pdos
                 /\ \A q \in pdos[handlers[r].pdo].parked :
                       completions'[q] = << >> /\ completions[q] = << >>
      ]_vars

\* C17's case: a DS4 request-notification was turned away with Busy by a
\* target that still holds the first one.
C17_Witness ==
    /\ DeviceControlReturned
    /\ last.rq.code = "IOCTL_DS4_REQUEST_NOTIFICATION"
    /\ last.status = "Busy"
    /\ ~last.stale
    /\ \E i \in LivePdos("DualShock4Wired", last.rq.SerialNo) :
          /\ Cardinality(pdos[i].parked) = 1
          /\ \A q \in pdos[i].parked : completions[q] = << >>

\* The checks a target-scoped request has to pass, as the request shows them.
PassesChecks(rq) ==
    /\ rq.code \in OutputCodes => rq.OutputBufferLength >= sizeof(rq.code)
    /\ rq.InputBufferLength >= sizeof(rq.code)
    /\ rq.Size = sizeof(rq.code)
    /\ rq.SerialNo # 0

\* A PDO's operation is invoked only for a request that passed every check
\* and whose lookup found a PDO, and the checks are made in their order: a
\* small output buffer ends the handler before the retrieval, and a failed
\* check ends it before the lookup.
InvokedOnlyAfterChecks ==
    /\ ( DeviceControlReturned /\ last.rq.code \in TargetCodes ) =>
          /\ last.op # "none" =>
                PassesChecks(last.rq) /\ last.retrieved /\ last.lookups = 1
          /\ OutputTooSmall(last.rq) => ~last.retrieved
          /\ ~PassesChecks(last.rq) => last.lookups = 0 /\ last.op = "none"
    /\ \A r \in ReqIds :
          handlers[r].pc = "lookedup" =>
              /\ PassesChecks(handlers[r].rq)
              /\ handlers[r].pdo \in PdoIds

\* C18: InvokedOnlyAfterChecks, and every target-scoped request that fails a
\* check, or whose lookup finds no PDO, is completed by the handler with an
\* error status: none of them ends with a success.
C18_ChecksBeforeInvoke ==
    /\ InvokedOnlyAfterChecks
    /\ ( /\ DeviceControlReturned
         /\ last.rq.code \in TargetCodes
         /\ last.op = "none" )
       => /\ ~NT_SUCCESS(last.status)
          /\ last.completed = 1

\* The requests C19 speaks of: completed by Bus_EvtIoDeviceControl itself,
\* and not a plug-in or unplug, whose length Bus_PlugInDevice and
\* Bus_UnPlugDevice set.
CompletedWithLength ==
    /\ DeviceControlReturned
    /\ last.completed = 1
    /\ last.rq.code \notin BusCodes

\* C19 as stated: the length a request is completed with is 0 when the code
\* is unknown or the output buffer is too small, and the length of the input
\* buffer in every other case, whatever the status.
C19_LengthAsStated ==
    CompletedWithLength =>
        IF last.rq.code = "IOCTL_UNKNOWN" \/ OutputTooSmall(last.rq)
        THEN last.length = 0
        ELSE last.length = last.rq.InputBufferLength

\* C19: the length a request is completed with is 0 when the input buffer
\* was not retrieved, which is when the code is unknown, the output buffer
\* is too small or the input buffer is absent or shorter than the structure,
\* and the length of the input buffer in every other case, whatever the
\* status.
C19_LengthIsRetrievedLength ==
    CompletedWithLength =>
        /\ last.retrieved <=>
              /\ last.rq.code # "IOCTL_UNKNOWN"
              /\ ~OutputTooSmall(last.rq)
              /\ last.rq.InputBufferLength >= sizeof(last.rq.code)
        /\ ~last.retrieved => last.length = 0
        /\ last.retrieved => last.length = last.rq.InputBufferLength

\* C19's case: a get-user-index with an input buffer one byte longer than
\* the structure reaches its target and is completed with that length.
C19_Witness ==
    /\ CompletedWithLength
    /\ last.op = "GetUserIndex"
    /\ last.status = "STATUS_SUCCESS"
    /\ last.rq.InputBufferLength = sizeof(last.rq.code) + 1
    /\ last.length = last.rq.InputBufferLength

\* C20: a request delivered to Bus_EvtIoDefault is completed by it, once and
\* before it returns, with STATUS_INVALID_DEVICE_REQUEST; it is parked
\* nowhere, and the child list, the PDOs and the requests they hold are left
\* as they were, without a lookup and without a call of an operation.
C20_DefaultIsInvalidDeviceRequest ==
    [][ /\ last'.handler = "Bus_EvtIoDefault" =>
              /\ last'.status = "STATUS_INVALID_DEVICE_REQUEST"
              /\ last'.completed = 1
              /\ last'.lookups = 0
              /\ last'.op = "none"
        /\ EvtIoDefault =>
              /\ last'.handler = "Bus_EvtIoDefault"
              /\ pdos' = pdos
              /\ orphans' = orphans
              /\ \A r \in Parked : completions'[r] = completions[r]
              /\ \A r \in ReqIds : handlers'[r].pc # "lookedup"
      ]_vars

\* C20's case: Bus_EvtIoDefault has completed a request while a target
\* holds a parked request-notification.
C20_Witness ==
    /\ last.handler = "Bus_EvtIoDefault"
    /\ last.status = "STATUS_INVALID_DEVICE_REQUEST"
    /\ last.completed = 1
    /\ \E i \in Live : pdos[i].parked # {}

====
